---- MODULE Spec2Model ----
(***************************************************************************)
(* Model of src/solution.py: the bouquet allocation engine.                *)
(*                                                                         *)
(*   parse_bouquet_design                          design token -> design  *)
(*   bouquet_from_design_with_most_common_flowers  one trial on a snapshot *)
(*   compute_bouquets                              the greedy loop         *)
(*   encode_bouquets                               bouquet -> output token *)
(*                                                                         *)
(* A Python dict / Counter is an insertion-ordered mapping; it is modelled *)
(* as a sequence of <<key, value>> pairs with distinct keys, in insertion  *)
(* order, because Counter.most_common(1) breaks ties by that order and     *)
(* because a key holding 0 differs from an absent key (an empty Counter    *)
(* makes most_common(1) return the empty list).                            *)
(*                                                                         *)
(* A design token is modelled at the level of the runs the two regular     *)
(* expressions of the parser see: the two-character name, maximal digit    *)
(* runs and maximal lowercase-letter runs, in left-to-right order.         *)
(*                                                                         *)
(* The cost is a sum of terms 1 - amount/total with total <= MaxTotal.     *)
(* It is kept exactly, as an integer multiple of 1/CostScale, CostScale    *)
(* being a common multiple of every possible total.                        *)
(***************************************************************************)
EXTENDS Integers, Sequences, FiniteSets, TLC

\* ------------------------------------------------------------------ bounds
\* the largest count of one species in an inventory
MaxStock == 2
\* the largest count a token requires of one species
MaxReq == 1
\* the largest final count (total slots) of a token
MaxSlots == 2

Species == {"a", "b"}
\* ascending lexical order of the species identifiers, as sorted() sees them
SpeciesOrder == <<"a", "b">>
\* design names of the large pool, by position in the input; a pool holds at
\* most Len(DesignNames) designs.  A bounded token holds at most one
\* <count><species> pair; tokens of two pairs are those of ScenarioTokenLists.
DesignNames == <<"AL", "BL">>

\* ------------------------------------------------- ordered dict / Counter
RECURSIVE DictIndex(_, _)
\* position of key k in d, 0 when absent
DictIndex(d, k) ==
    IF d = <<>> THEN 0
    ELSE IF d[Len(d)][1] = k THEN Len(d)
    ELSE DictIndex(SubSeq(d, 1, Len(d) - 1), k)

DictHas(d, k) == DictIndex(d, k) # 0

\* Counter.__getitem__: the count, 0 for a missing key (nothing is inserted)
DictGet(d, k) == IF DictHas(d, k) THEN d[DictIndex(d, k)][2] ELSE 0

\* d[k] = v: in place for an existing key, appended for a new one
DictSet(d, k, v) ==
    IF DictHas(d, k) THEN [d EXCEPT ![DictIndex(d, k)] = <<k, v>>]
    ELSE Append(d, <<k, v>>)

\* del d[k]
DictDel(d, k) == SelectSeq(d, LAMBDA e : e[1] # k)

RECURSIVE DictSum(_)
\* sum(d.values())
DictSum(d) == IF d = <<>> THEN 0 ELSE d[1][2] + DictSum(Tail(d))

RECURSIVE MostCommonFrom(_, _)
\* the first entry with the largest count among the entries of d, best so far
MostCommonFrom(d, best) ==
    IF d = <<>> THEN best
    ELSE MostCommonFrom(Tail(d), IF d[1][2] > best[2] THEN d[1] ELSE best)

RECURSIVE LeastCommonFrom(_, _)
LeastCommonFrom(dd, best) ==
    IF dd = <<>> THEN best
    ELSE LeastCommonFrom(Tail(dd), IF dd[1][2] < best[2] THEN dd[1] ELSE best)

\* a slip: the entry at the other end of the ranking, most_common()[-1]
least_common(dd) ==
    IF dd = <<>> THEN <<>> ELSE <<LeastCommonFrom(Tail(dd), dd[1])>>

\* Counter.most_common(1): <<>> for an empty Counter, else the one entry with
\* the largest count, the first such in insertion order
most_common(dd) ==
    IF dd = <<>> THEN <<>> ELSE <<MostCommonFrom(Tail(dd), dd[1])>>

\* ------------------------------------------------------------ design token
Name(t) == [kind |-> "name", text |-> t, val |-> 0]
Digits(n) == [kind |-> "digits", text |-> "", val |-> n]
Letters(s) == [kind |-> "letters", text |-> s, val |-> 0]

RECURSIVE PairRuns(_)
\* <count><species> <count><species> ...
PairRuns(pairs) ==
    IF pairs = <<>> THEN <<>>
    ELSE <<Digits(pairs[1][1]), Letters(pairs[1][2])>> \o PairRuns(Tail(pairs))

\* <name><count><species>...<count>
Token(name, pairs, total) == <<Name(name)>> \o PairRuns(pairs) \o <<Digits(total)>>

RECURSIVE DesignDict(_, _, _)
\* for i, s in enumerate(design_species): design[s] = design_counters[i]
DesignDict(design_species, design_counters, i) ==
    IF i = 0 THEN <<>>
    ELSE DictSet(DesignDict(design_species, design_counters, i - 1),
                 design_species[i].text, design_counters[i].val)

\* the tuple (design, num_flowers_bouquet, design_name)
parse_bouquet_design(bouquet_design) ==
    LET design_counters == SelectSeq(bouquet_design, LAMBDA x : x.kind = "digits")
        design_species == SelectSeq(bouquet_design, LAMBDA x : x.kind = "letters")
    IN  << DesignDict(design_species, design_counters, Len(design_species)),
           design_counters[Len(design_counters)].val,
           bouquet_design[1].text >>

\* ------------------------------------------------------------- the inputs
\* a Counter as parse_content builds it: distinct species in first-seen
\* order, every count at least 1
BoundedInventories ==
    { f \in UNION { [1..k -> Species \X (1..MaxStock)] : k \in 0..Cardinality(Species) } :
        \A i, j \in DOMAIN f : i # j => f[i][1] # f[j][1] }

\* the inventory of the worked example BL2a0b2 on {a:5}
ScenarioInventories == { << <<"a", 5>> >> }

Inventories == BoundedInventories \cup ScenarioInventories

RECURSIVE SetMax(_)
SetMax(S) ==
    IF S = {} THEN 0
    ELSE LET x == CHOOSE y \in S : TRUE
             m == SetMax(S \ {x})
         IN  IF x > m THEN x ELSE m

\* the largest total an inventory holds
MaxTotal == SetMax({ DictSum(f) : f \in Inventories })

RECURSIVE Gcd(_, _)
Gcd(m, n) == IF n = 0 THEN m ELSE Gcd(n, m % n)

RECURSIVE LcmUpTo(_)
LcmUpTo(n) == IF n <= 1 THEN 1 ELSE LET l == LcmUpTo(n - 1) IN (l * n) \div Gcd(l, n)

\* costs are integer multiples of 1/CostScale
CostScale == LcmUpTo(MaxTotal)

\* 1e99: above the cost of any bouquet (a bouquet of n units costs less than n)
large_cost == CostScale * (MaxTotal + 1)

\* ------------------------------ bouquet_from_design_with_most_common_flowers
\* the locals of one call: the snapshot, the running total, the slots left,
\* the bouquet so far and the accumulated cost
\* cost_value += 1.0 - flowers[s] / total_number_of_flowers; flowers[s] -= 1;
\* total_number_of_flowers -= 1; remaining_flowers_to_add -= 1; bouquet[s] += 1
AddFlower(st, s) ==
    [ flowers |-> DictSet(st.flowers, s, DictGet(st.flowers, s) - 1),
      total_number_of_flowers |-> st.total_number_of_flowers - 1,
      remaining_flowers_to_add |-> st.remaining_flowers_to_add - 1,
      bouquet |-> DictSet(st.bouquet, s, DictGet(st.bouquet, s) + 1),
      cost_value |-> st.cost_value
          + ((st.total_number_of_flowers - DictGet(st.flowers, s)) * CostScale)
                \div st.total_number_of_flowers ]

RECURSIVE AddRequired(_, _, _)
\* for j in range(design[0][s]): one unit of s at a time
AddRequired(st, s, n) ==
    IF n <= 0 THEN st ELSE AddRequired(AddFlower(st, s), s, n - 1)

\* the outcome of a call: the returned pair, whether the call raised instead
\* of returning, and the snapshot as the call left it
Infeasible(st) ==
    [bouquet |-> <<>>, cost |-> large_cost, raised |-> FALSE, flowers |-> st.flowers]
Completed(st) ==
    [bouquet |-> st.bouquet, cost |-> st.cost_value, raised |-> FALSE, flowers |-> st.flowers]
Raised(st) ==
    [bouquet |-> <<>>, cost |-> large_cost, raised |-> TRUE, flowers |-> st.flowers]

\* if flowers[s] < design[0][s] or total_number_of_flowers <= 0
NotEnough(st, s, n) ==
    DictGet(st.flowers, s) < n \/ st.total_number_of_flowers <= 0

RECURSIVE RequiredLoop(_, _, _)
\* for s in design[0].keys(), from the i-th key on: [ok, st]
RequiredLoop(required, i, st) ==
    IF i > Len(required) THEN [ok |-> TRUE, st |-> st]
    ELSE LET s == required[i][1]
             n == required[i][2]
         IN  IF NotEnough(st, s, n) THEN [ok |-> FALSE, st |-> st]
             ELSE RequiredLoop(required, i + 1,
                      AddRequired([st EXCEPT !.bouquet = DictSet(st.bouquet, s, 0)], s, n))

\* if flowers[s] < 0 or total_number_of_flowers <= 0
FillerExhausted(st, s) ==
    DictGet(st.flowers, s) < 0 \/ st.total_number_of_flowers <= 0

\* one filler unit of s; a species that reaches 0 leaves the snapshot
AddFiller(st, s) ==
    LET st0 == IF DictHas(st.bouquet, s) THEN st
               ELSE [st EXCEPT !.bouquet = DictSet(st.bouquet, s, 0)]
        st1 == AddFlower(st0, s)
    IN  IF DictGet(st1.flowers, s) = 0
        THEN [st1 EXCEPT !.flowers = DictDel(st1.flowers, s)]
        ELSE st1

RECURSIVE FillerLoop(_, _)
\* for i in range(remaining_flowers_to_add), k iterations left
FillerLoop(st, k) ==
    IF k <= 0 THEN Completed(st)
    ELSE LET mc == most_common(st.flowers)
         IN  IF mc = <<>> THEN Raised(st)      \* most_common[0]: IndexError
             ELSE IF FillerExhausted(st, mc[1][1]) THEN Infeasible(st)
             ELSE FillerLoop(AddFiller(st, mc[1][1]), k - 1)

bouquet_from_design_with_most_common_flowers(design, flowers) ==
    LET st0 == [ flowers |-> flowers,
                 total_number_of_flowers |-> DictSum(flowers),
                 remaining_flowers_to_add |-> design[2],
                 bouquet |-> <<>>,
                 cost_value |-> 0 ]
        req == RequiredLoop(design[1], 1, st0)
    IN  IF ~req.ok THEN Infeasible(req.st)
        ELSE IF req.st.remaining_flowers_to_add = 0 THEN Completed(req.st)
        ELSE FillerLoop(req.st, req.st.remaining_flowers_to_add)

\* ---------------------------------------------------------- encode_bouquets
RECURSIVE EncodeItems(_, _)
\* for s, v in sorted(b[0].items()): enc += str(v) + s, from the i-th species on
EncodeItems(composition, i) ==
    IF i > Len(SpeciesOrder) THEN <<>>
    ELSE (IF DictHas(composition, SpeciesOrder[i])
          THEN <<Digits(DictGet(composition, SpeciesOrder[i])), Letters(SpeciesOrder[i])>>
          ELSE <<>>) \o EncodeItems(composition, i + 1)

encode_bouquets(bs) ==
    [i \in 1..Len(bs) |-> <<Name(bs[i][2])>> \o EncodeItems(bs[i][1], 1)]

\* ------------------------------------------------------------ design lists
\* the <count><species> parts of a token: none, or one pair
PairSeqs == {<<>>} \cup { <<p>> : p \in (0..MaxReq) \X Species }

TokenShapes == PairSeqs \X (0..MaxSlots)

BoundedTokenLists ==
    UNION { { [i \in 1..k |-> Token(DesignNames[i], f[i][1], f[i][2])] :
                f \in [1..k -> TokenShapes] } : k \in 0..Len(DesignNames) }

\* design lists with tokens of two pairs: the worked example BL2a0b2, the
\* worked example AL10a15b25 scaled down, a token naming one species twice,
\* and two designs competing for species b
ScenarioTokenLists ==
    { << Token("BL", << <<2, "a">>, <<0, "b">> >>, 2) >>,
      << Token("AL", << <<1, "a">>, <<1, "b">> >>, 2) >>,
      << Token("AL", << <<1, "a">>, <<2, "a">> >>, 3) >>,
      << Token("AL", << <<1, "a">>, <<1, "b">> >>, 3),
         Token("BL", << <<2, "b">> >>, 2) >> }

TokenLists == BoundedTokenLists \cup ScenarioTokenLists

\* the result list is recorded up to this length: a run that commits more
\* bouquets than there are flowers commits bouquets of no flower
MaxBouquets == MaxTotal + 1

\* ------------------------------------------------------------------- state
VARIABLES
    tokens,               \* the design tokens of the pool, as read
    initial_flowers,      \* the pool's inventory as parse_content built it
    designs,              \* compute: the parsed designs
    flowers,              \* the real ledger (the Counter compute_bouquets is given)
    num_flowers,          \* compute_bouquets: running total
    bouquets,             \* compute_bouquets: result list of (bouquet, name)
    bouquet_to_generate,  \* compute_bouquets: {} or (bouquet, name)
    cost,                 \* compute_bouquets: minimum cost so far
    d,                    \* compute_bouquets: position of the for loop in designs
    encoded_bouquet,      \* encode_bouquets: result
    pc

vars == << tokens, initial_flowers, designs, flowers, num_flowers, bouquets,
           bouquet_to_generate, cost, d, encoded_bouquet, pc >>

Init ==
    /\ tokens \in TokenLists
    /\ initial_flowers \in Inventories
    /\ flowers = initial_flowers
    /\ designs = <<>>
    /\ num_flowers = 0
    /\ bouquets = <<>>
    /\ bouquet_to_generate = <<>>
    /\ cost = large_cost
    /\ d = 1
    /\ encoded_bouquet = <<>>
    /\ pc = "compute"

\* compute: every token parsed; compute_bouquets entered
EnterCompute ==
    /\ pc = "compute"
    /\ designs' = [i \in 1..Len(tokens) |-> parse_bouquet_design(tokens[i])]
    /\ num_flowers' = DictSum(flowers)
    /\ bouquets' = <<>>
    /\ pc' = "while"
    /\ UNCHANGED << tokens, initial_flowers, flowers, bouquet_to_generate, cost, d,
                    encoded_bouquet >>

\* while num_flowers > 0: a new iteration
WhileEnter ==
    /\ pc = "while"
    /\ num_flowers > 0
    /\ bouquet_to_generate' = <<>>
    /\ cost' = large_cost
    /\ d' = 1
    /\ pc' = "for"
    /\ UNCHANGED << tokens, initial_flowers, designs, flowers, num_flowers, bouquets,
                    encoded_bouquet >>

\* a slip: while num_flowers > 1
WhileExitEarly ==
    /\ pc = "while"
    /\ ~(num_flowers > 1)
    /\ pc' = "return"
    /\ UNCHANGED << tokens, initial_flowers, designs, flowers, num_flowers, bouquets,
                    bouquet_to_generate, cost, d, encoded_bouquet >>

\* while num_flowers > 0: the condition fails
WhileExit ==
    /\ pc = "while"
    /\ ~(num_flowers > 0)
    /\ pc' = "return"
    /\ UNCHANGED << tokens, initial_flowers, designs, flowers, num_flowers, bouquets,
                    bouquet_to_generate, cost, d, encoded_bouquet >>

\* the trial of designs[d] on a deep copy of the ledger
Trial == bouquet_from_design_with_most_common_flowers(designs[d], flowers)

\* a slip: if minimum_cost <= cost
TrialReturnsLessEqual ==
    /\ pc = "for"
    /\ d <= Len(designs)
    /\ ~Trial.raised
    /\ IF Trial.cost <= cost
       THEN /\ cost' = Trial.cost
            /\ bouquet_to_generate' = <<Trial.bouquet, designs[d][3]>>
       ELSE UNCHANGED << cost, bouquet_to_generate >>
    /\ d' = d + 1
    /\ UNCHANGED << tokens, initial_flowers, designs, flowers, num_flowers, bouquets,
                    encoded_bouquet, pc >>

\* a slip: the trial is given the ledger itself, not a deep copy
TrialReturnsNoCopy ==
    /\ pc = "for"
    /\ d <= Len(designs)
    /\ ~Trial.raised
    /\ IF Trial.cost < cost
       THEN /\ cost' = Trial.cost
            /\ bouquet_to_generate' = <<Trial.bouquet, designs[d][3]>>
       ELSE UNCHANGED << cost, bouquet_to_generate >>
    /\ d' = d + 1
    /\ flowers' = Trial.flowers
    /\ UNCHANGED << tokens, initial_flowers, designs, num_flowers, bouquets,
                    encoded_bouquet, pc >>

\* one pass of the for loop: the trial returns
TrialReturns ==
    /\ pc = "for"
    /\ d <= Len(designs)
    /\ ~Trial.raised
    /\ IF Trial.cost < cost
       THEN /\ cost' = Trial.cost
            /\ bouquet_to_generate' = <<Trial.bouquet, designs[d][3]>>
       ELSE UNCHANGED << cost, bouquet_to_generate >>
    /\ d' = d + 1
    /\ UNCHANGED << tokens, initial_flowers, designs, flowers, num_flowers, bouquets,
                    encoded_bouquet, pc >>

\* one pass of the for loop: the trial raises, and so does compute_bouquets
TrialRaises ==
    /\ pc = "for"
    /\ d <= Len(designs)
    /\ Trial.raised
    /\ pc' = "raised"
    /\ UNCHANGED << tokens, initial_flowers, designs, flowers, num_flowers, bouquets,
                    bouquet_to_generate, cost, d, encoded_bouquet >>

\* if not bouquet_to_generate: break
Break ==
    /\ pc = "for"
    /\ d > Len(designs)
    /\ bouquet_to_generate = <<>>
    /\ pc' = "return"
    /\ UNCHANGED << tokens, initial_flowers, designs, flowers, num_flowers, bouquets,
                    bouquet_to_generate, cost, d, encoded_bouquet >>

RECURSIVE Subtract(_, _)
\* for s in bouquet.keys(): flowers[s] -= bouquet[s]
Subtract(fl, bouquet) ==
    IF bouquet = <<>> THEN fl
    ELSE Subtract(DictSet(fl, bouquet[1][1], DictGet(fl, bouquet[1][1]) - bouquet[1][2]),
                  Tail(bouquet))

\* a slip: num_flowers -= 1 for each species of the bouquet
CommitCountsSpecies ==
    /\ pc = "for"
    /\ d > Len(designs)
    /\ bouquet_to_generate # <<>>
    /\ bouquets' = IF Len(bouquets) < MaxBouquets
                   THEN Append(bouquets, bouquet_to_generate)
                   ELSE bouquets
    /\ num_flowers' = num_flowers - Len(bouquet_to_generate[1])
    /\ flowers' = Subtract(flowers, bouquet_to_generate[1])
    /\ pc' = "while"
    /\ UNCHANGED << tokens, initial_flowers, designs, bouquet_to_generate, cost, d,
                    encoded_bouquet >>

\* the bouquet with the minimum cost is generated
Commit ==
    /\ pc = "for"
    /\ d > Len(designs)
    /\ bouquet_to_generate # <<>>
    /\ bouquets' = IF Len(bouquets) < MaxBouquets
                   THEN Append(bouquets, bouquet_to_generate)
                   ELSE bouquets
    /\ num_flowers' = num_flowers - DictSum(bouquet_to_generate[1])
    /\ flowers' = Subtract(flowers, bouquet_to_generate[1])
    /\ pc' = "while"
    /\ UNCHANGED << tokens, initial_flowers, designs, bouquet_to_generate, cost, d,
                    encoded_bouquet >>

\* compute: the returned bouquets are encoded
Encode ==
    /\ pc = "return"
    /\ encoded_bouquet' = encode_bouquets(bouquets)
    /\ pc' = "end"
    /\ UNCHANGED << tokens, initial_flowers, designs, flowers, num_flowers, bouquets,
                    bouquet_to_generate, cost, d >>

Next ==
    \/ EnterCompute
    \/ WhileEnter
    \/ WhileExit
    \/ TrialReturns
    \/ TrialRaises
    \/ Break
    \/ Commit
    \/ Encode

Spec == Init /\ [][Next]_vars

\* ================================================================== claims
\* the fresh trial of the j-th design on the real ledger as it stands
TrialOf(j) == bouquet_from_design_with_most_common_flowers(designs[j], flowers)

\* the for loop is over and a bouquet was chosen: the next step commits it
AtCommit == pc = "for" /\ d > Len(designs) /\ bouquet_to_generate # <<>>

RECURSIVE Units(_)
\* the number of flower units in a list of (bouquet, name)
Units(bs) == IF bs = <<>> THEN 0 ELSE DictSum(bs[1][1]) + Units(Tail(bs))

\* C1: every bouquet a trial returns as feasible, and so every bouquet in the
\* result list, has counts that sum to the total slots of its design.
C1_CompositionSumsToTotalSlots ==
    /\ (pc = "for" /\ d <= Len(designs) /\ ~Trial.raised /\ Trial.cost < large_cost)
          => DictSum(Trial.bouquet) = designs[d][2]
    /\ \A i \in 1..Len(bouquets) : \A j \in 1..Len(designs) :
          designs[j][3] = bouquets[i][2] => DictSum(bouquets[i][1]) = designs[j][2]

\* C2: no species count of the real ledger is ever below zero, and the bouquet
\* about to be committed takes from no species more than the ledger holds.
C2_LedgerNeverNegative ==
    /\ \A i \in 1..Len(flowers) : flowers[i][2] >= 0
    /\ AtCommit => \A s \in Species :
          DictGet(bouquet_to_generate[1], s) <= DictGet(flowers, s)

\* C2 witness: a commit has taken the whole stock of a species
C2_Witness ==
    /\ pc = "while"
    /\ bouquets # <<>>
    /\ \E s \in Species : DictGet(initial_flowers, s) > 0 /\ DictHas(flowers, s)
                          /\ DictGet(flowers, s) = 0

\* C3: the total of the real ledger never increases, and every step that
\* appends a bouquet to the result list decreases it by at least one.
C3_TotalDecreasesOnCommit ==
    [][ /\ DictSum(flowers') <= DictSum(flowers)
        /\ (pc = "for" /\ pc' = "while") => DictSum(flowers') < DictSum(flowers) ]_vars

\* C4: compute_bouquets terminates.  What an iteration does is decided by
\* designs, flowers and num_flowers alone, so a loop that terminates has no
\* iteration that hands the next one the ledger and the counter it started
\* with.
C4_EveryIterationProgresses ==
    [][ (pc = "for" /\ pc' = "while")
           => <<flowers', num_flowers'>> # <<flowers, num_flowers>> ]_vars

\* the cost of a design without filler slots, summed unit by unit: the j-th
\* unit of the i-th required species s costs 1 - amount/total, where amount
\* is the ledger's count of s less j and total is the ledger's total less the
\* units taken before
RECURSIVE UnitCosts(_, _, _, _)
UnitCosts(fl, s, n, before) ==
    IF n = 0 THEN 0
    ELSE UnitCosts(fl, s, n - 1, before)
         + (((DictSum(fl) - before - (n - 1)) - (DictGet(fl, s) - (n - 1))) * CostScale)
               \div (DictSum(fl) - before - (n - 1))

RECURSIVE RequiredCost(_, _, _)
RequiredCost(fl, required, i) ==
    IF i = 0 THEN 0
    ELSE RequiredCost(fl, required, i - 1)
         + UnitCosts(fl, required[i][1], required[i][2],
                     DictSum(SubSeq(required, 1, i - 1)))

\* C5: the bouquet about to be committed is the trial result of a design k
\* whose cost is below the infeasible sentinel, no design costs less on the
\* same ledger, and every earlier design costs strictly more; the cost of a
\* design without filler slots is the sum of 1 - amount/total over its units.
C5_CheapestFirstWins ==
    AtCommit =>
      \E k \in 1..Len(designs) :
        /\ bouquet_to_generate = <<TrialOf(k).bouquet, designs[k][3]>>
        /\ cost = TrialOf(k).cost
        /\ cost < large_cost
        /\ \A j \in 1..Len(designs) : TrialOf(j).cost >= cost
        /\ \A j \in 1..(k - 1) : TrialOf(j).cost > cost
        /\ DictSum(designs[k][1]) = designs[k][2]
              => cost = RequiredCost(flowers, designs[k][1], Len(designs[k][1]))

\* C5 witness: two feasible designs of equal cost, the first one chosen
C5_Witness ==
    /\ AtCommit
    /\ Len(designs) = 2
    /\ TrialOf(1).cost = TrialOf(2).cost
    /\ cost > 0
    /\ bouquet_to_generate[2] = designs[1][3]

\* C6: a trial leaves the real ledger and the design list as they are; the
\* ledger changes only in the commit step, by the composition of the chosen
\* bouquet; an iteration that finds no feasible design leaves it unchanged.
C6_TrialsAreIsolated ==
    [][ /\ (pc = "for" /\ d <= Len(designs)) => (flowers' = flowers /\ designs' = designs)
        /\ flowers' # flowers => AtCommit
        /\ AtCommit => \A s \in Species :
              DictGet(flowers', s) = DictGet(flowers, s) - DictGet(bouquet_to_generate[1], s)
        /\ (pc = "for" /\ pc' = "return") => flowers' = flowers ]_vars

\* C6 witness: the first of two trials took flowers from its snapshot, and the
\* second trial starts on the ledger as it was
C6_Witness ==
    /\ pc = "for"
    /\ d = 2
    /\ Len(designs) = 2
    /\ bouquet_to_generate # <<>>
    /\ DictSum(bouquet_to_generate[1]) > 0
    /\ bouquets = <<>>
    /\ flowers = initial_flowers

\* the worked example: design token BL2a0b2, inventory {a:5}
ScenarioB ==
    /\ tokens = << Token("BL", << <<2, "a">>, <<0, "b">> >>, 2) >>
    /\ initial_flowers = << <<"a", 5>> >>

\* C7: every species of a produced bouquet has a count above zero; on the
\* worked example the run ends with two bouquets, each encoded BL2a, and one
\* flower left.
C7_PositiveCounts ==
    /\ \A i \in 1..Len(bouquets) : \A e \in 1..Len(bouquets[i][1]) :
          bouquets[i][1][e][2] > 0
    /\ (ScenarioB /\ pc = "end") =>
          /\ encoded_bouquet = << <<Name("BL"), Digits(2), Letters("a")>>,
                                  <<Name("BL"), Digits(2), Letters("a")>> >>
          /\ num_flowers = 1

\* C8: a trial of a design with filler slots on a ledger that holds every
\* required count but fewer flowers than the design's total slots returns the
\* empty bouquet with the sentinel cost, and does not raise.
C8_ExhaustedFillerIsInfeasible ==
    (/\ pc = "for"
     /\ d <= Len(designs)
     /\ designs[d][2] > DictSum(designs[d][1])
     /\ \A i \in 1..Len(designs[d][1]) :
           DictGet(flowers, designs[d][1][i][1]) >= designs[d][1][i][2]
     /\ DictSum(flowers) < designs[d][2])
    => (~Trial.raised /\ Trial.bouquet = <<>> /\ Trial.cost = large_cost)

\* C9: when compute_bouquets has returned, the ledger is empty or a fresh
\* trial of every design on it is infeasible.
C9_StopsAtFixedPoint ==
    pc \in {"return", "end"} =>
       \/ DictSum(flowers) = 0
       \/ \A j \in 1..Len(designs) :
             ~TrialOf(j).raised /\ TrialOf(j).bouquet = <<>> /\ TrialOf(j).cost = large_cost

\* C9 witness: bouquets were made, flowers are left, and no design fits them
C9_Witness ==
    /\ pc = "return"
    /\ bouquets # <<>>
    /\ DictSum(flowers) > 0

\* C10: at the start of every iteration and at return, num_flowers is the sum
\* of the ledger's counts, and it is the initial total less the flower units
\* of the bouquets made.
C10_CounterMatchesLedger ==
    pc \in {"while", "for", "return", "end"} =>
       /\ num_flowers = DictSum(flowers)
       /\ num_flowers = DictSum(initial_flowers) - Units(bouquets)

\* C10 witness: a run that made a bouquet of two flowers and returned with
\* flowers left
C10_Witness ==
    /\ pc = "return"
    /\ \E i \in 1..Len(bouquets) : DictSum(bouquets[i][1]) = 2
    /\ num_flowers > 0

====
